---- MODULE Spec2Model ----
(***************************************************************************)
(* Model of pythonnet/__init__.py: the process-wide loader that selects a  *)
(* clr_loader runtime (set_runtime), loads Python.Runtime.dll into it and  *)
(* calls its Initialize entry point (load), and shuts it down (unload).    *)
(*                                                                         *)
(* Python strings that the code slices or case-folds (flavor tokens,       *)
(* environment variable names, parameter keys) are sequences of            *)
(* one-character strings, so upper(), lower(), startswith() and k[len_:]   *)
(* are computed as the code computes them.  A mapping (dict) is a set of   *)
(* [k, v] records with unique keys.                                        *)
(***************************************************************************)
EXTENDS Integers, Sequences, FiniteSets, TLC

VARIABLES
    platform,        \* sys.platform of the host
    environ,         \* os.environ: a sequence of [k, v], names unique, in iteration order
    RUNTIME,         \* _RUNTIME        (line 9)
    LOADER_ASSEMBLY, \* _LOADER_ASSEMBLY (line 10)
    LOADED,          \* _LOADED         (line 11)
    atexit_hooks,    \* number of times atexit.register(unload) has run
    last,            \* what the most recent public call was given and what it did
    exiting,         \* the interpreter is exiting: atexit runs the registered hooks
    pending,         \* number of registered hooks atexit has still to run
    module_initialized, \* history: the Initialize call on the stored module returned 0
    phase            \* history: "fresh", "initialized" (an Initialize call returned 0 and
                     \* unload was not called since), "unloaded" (then unload succeeded
                     \* and only unload was called since), "reloaded" (then an
                     \* Initialize call returned 0 again and unload was not called since)

vars == <<platform, environ, RUNTIME, LOADER_ASSEMBLY, LOADED, atexit_hooks,
          last, exiting, pending, module_initialized, phase>>

\* The number of exit hooks the model lets the process register.
MaxHooks == 2

-----------------------------------------------------------------------------
\* Character data

LowerLetters == <<"a", "b", "c", "d", "e", "f", "g", "h", "i", "j", "k", "l", "m",
                  "n", "o", "p", "q", "r", "s", "t", "u", "v", "w", "x", "y", "z">>
UpperLetters == <<"A", "B", "C", "D", "E", "F", "G", "H", "I", "J", "K", "L", "M",
                  "N", "O", "P", "Q", "R", "S", "T", "U", "V", "W", "X", "Y", "Z">>

\* The characters of the names and values the model uses
Chars == {LowerLetters[i] : i \in 1..Len(LowerLetters)}
             \cup {UpperLetters[i] : i \in 1..Len(UpperLetters)}
             \cup {"_", "/", "."}

\* str.upper() and str.lower(), one character at a time
UpperMap ==
    [c \in Chars |->
        IF \E i \in 1..Len(LowerLetters) : LowerLetters[i] = c
        THEN UpperLetters[CHOOSE i \in 1..Len(LowerLetters) : LowerLetters[i] = c]
        ELSE c]
LowerMap ==
    [c \in Chars |->
        IF \E i \in 1..Len(UpperLetters) : UpperLetters[i] = c
        THEN LowerLetters[CHOOSE i \in 1..Len(UpperLetters) : UpperLetters[i] = c]
        ELSE c]
UpperChar(c) == UpperMap[c]
LowerChar(c) == LowerMap[c]
Upper(s) == [i \in 1..Len(s) |-> UpperChar(s[i])]
Lower(s) == [i \in 1..Len(s) |-> LowerChar(s[i])]

\* str.startswith(p)
StartsWith(s, p) == Len(s) >= Len(p) /\ SubSeq(s, 1, Len(p)) = p

S_default == <<"d", "e", "f", "a", "u", "l", "t">>
S_netfx == <<"n", "e", "t", "f", "x">>
S_mono == <<"m", "o", "n", "o">>
S_coreclr == <<"c", "o", "r", "e", "c", "l", "r">>
S_bogus == <<"b", "o", "g", "u", "s">>
PYTHONNET_ == <<"P", "Y", "T", "H", "O", "N", "N", "E", "T", "_">>
K_RUNTIME == <<"P", "Y", "T", "H", "O", "N", "N", "E", "T", "_", "R", "U", "N", "T", "I", "M", "E">>
K_CORECLR_RUNTIME_CONFIG == <<"P", "Y", "T", "H", "O", "N", "N", "E", "T", "_", "C", "O", "R", "E", "C", "L", "R", "_", "R", "U", "N", "T", "I", "M", "E", "_", "C", "O", "N", "F", "I", "G">>
K_MONO_LIBMONO == <<"P", "Y", "T", "H", "O", "N", "N", "E", "T", "_", "M", "O", "N", "O", "_", "L", "I", "B", "M", "O", "N", "O">>
K_mono_libmono == <<"p", "y", "t", "h", "o", "n", "n", "e", "t", "_", "m", "o", "n", "o", "_", "l", "i", "b", "m", "o", "n", "o">>
K_Mono_Debug == <<"P", "y", "t", "h", "o", "n", "N", "e", "t", "_", "M", "o", "n", "o", "_", "D", "e", "b", "u", "g">>
K_MONOX == <<"P", "Y", "T", "H", "O", "N", "N", "E", "T", "_", "M", "O", "N", "O", "X">>
K_NETFX_DOMAIN == <<"P", "Y", "T", "H", "O", "N", "N", "E", "T", "_", "N", "E", "T", "F", "X", "_", "D", "O", "M", "A", "I", "N">>
V_json == <<"/", "t", "m", "p", "/", "x", ".", "j", "s", "o", "n">>
V_a == <<"a">>
V_b == <<"b">>
P_domain == <<"d", "o", "m", "a", "i", "n">>
C10_runtime_config == <<"r", "u", "n", "t", "i", "m", "e", "_", "c", "o", "n", "f", "i", "g">>

\* The flavor tokens _create_runtime_from_spec accepts (lines 56-61)
Flavors == {S_netfx, S_mono, S_coreclr}

-----------------------------------------------------------------------------
\* Values

\* Python's None, for a runtime handle and for the assembly
None == [flavor |-> <<>>, params |-> {}, built |-> "none"]
\* A clr_loader.Runtime the caller constructed and passes in
Prebuilt == [flavor |-> <<>>, params |-> {}, built |-> "prebuilt"]
\* What clr_loader.get_<flavor>(**params) returns
Constructed(flavor, params) == [flavor |-> flavor, params |-> params, built |-> "ctor"]
\* What runtime.get_assembly(dll_path) returns: the wrapper of the dll in that runtime
Assembly(rt) == [rt |-> rt]
NoAssembly == [rt |-> None]

\* The runtime argument of set_runtime / load: a str or a handle (or None)
StrArg(token) == [isStr |-> TRUE, token |-> token, handle |-> None]
HandleArg(h) == [isStr |-> FALSE, token |-> <<>>, handle |-> h]

\* dict item assignment d[k] = v
Put(d, k, v) == {e \in d : e.k # k} \cup {[k |-> k, v |-> v]}
Keys(d) == {e.k : e \in d}

\* environ.get(name, dflt)
EnvGet(env, name, dflt) ==
    IF \E i \in 1..Len(env) : env[i].k = name
    THEN env[CHOOSE i \in 1..Len(env) : env[i].k = name].v
    ELSE dflt

-----------------------------------------------------------------------------
\* The hosts: sys.platform and os.environ

Platforms == {"win32", "linux"}

Environments ==
    { <<>>,
      << [k |-> K_RUNTIME, v |-> S_coreclr],
         [k |-> K_CORECLR_RUNTIME_CONFIG, v |-> V_json] >>,
      << [k |-> K_MONO_LIBMONO, v |-> V_a],
         [k |-> K_MONOX, v |-> V_b],
         [k |-> K_Mono_Debug, v |-> V_a],
         [k |-> K_mono_libmono, v |-> V_b] >>,
      << [k |-> K_RUNTIME, v |-> S_bogus],
         [k |-> K_NETFX_DOMAIN, v |-> V_a] >> }

-----------------------------------------------------------------------------
\* _get_params_from_env (lines 31-42)

\* the prefix built without upper-casing the flavor
FullPrefixAsGiven(prefix) == PYTHONNET_ \o prefix \o <<"_">>

FullPrefix(prefix) == PYTHONNET_ \o Upper(prefix) \o <<"_">>

\* The dict comprehension over environ.items(), taken in iteration order:
\* the first n items
RECURSIVE EnvVars(_, _, _)
EnvVars(env, full_prefix, n) ==
    IF n = 0 THEN {}
    ELSE LET rest == EnvVars(env, full_prefix, n - 1)
             k == env[n].k
             len_ == Len(full_prefix)
         IN IF StartsWith(Upper(k), full_prefix)
            THEN Put(rest, Lower(SubSeq(k, len_ + 1, Len(k))), env[n].v)
            ELSE rest

GetParamsFromEnv(env, prefix) == EnvVars(env, FullPrefix(prefix), Len(env))

\* _get_params_from_env tabulated for the hosts' environments and the tokens
\* that reach it, so that it is computed once for each
EnvTokens == {S_default, S_netfx, S_mono, S_coreclr, S_bogus}
EnvParamsTable ==
    [env \in Environments |-> [t \in EnvTokens |-> GetParamsFromEnv(env, t)]]
ParamsFromEnv(env, prefix) ==
    IF env \in Environments /\ prefix \in EnvTokens
    THEN EnvParamsTable[env][prefix]
    ELSE GetParamsFromEnv(env, prefix)

-----------------------------------------------------------------------------
\* _create_runtime_from_spec (lines 45-63)

\* "default" resolved from PYTHONNET_RUNTIME on every platform
ResolveSpecEnvOnly(spec, plat, env) ==
    IF spec = S_default THEN EnvGet(env, K_RUNTIME, S_mono) ELSE spec

\* lines 48-52: what the token "default" stands for
ResolveSpec(spec, plat, env) ==
    IF spec = S_default
    THEN IF plat = "win32" THEN S_netfx ELSE EnvGet(env, K_RUNTIME, S_mono)
    ELSE spec

\* line 54: params or _get_params_from_env(spec)
SelectParams(params, spec, env) ==
    IF params # {} THEN params ELSE ParamsFromEnv(env, spec)

\* an unknown token falling back to Mono instead of raising
CreateRuntimeFromSpecFallback(spec, params, ctorOK, plat, env) ==
    LET resolved == ResolveSpec(spec, plat, env)
        flavor == IF resolved \in Flavors THEN resolved ELSE S_mono
        made == Constructed(flavor, SelectParams(params, resolved, env))
    IN [err |-> IF ctorOK THEN "none" ELSE "LoaderError",
        rt |-> IF ctorOK THEN made ELSE None,
        resolved |-> resolved,
        named |-> <<>>,
        ctorCalled |-> TRUE,
        ctor |-> made]

\* The outcome: err, the handle returned (None when it raised), the resolved
\* token, the token the error message names, and the constructor call made
\* (flavor, params), if any.
\* ctorOK: whether clr_loader.get_<flavor> returns rather than raises.
CreateRuntimeFromSpec(spec, params, ctorOK, plat, env) ==
    LET resolved == ResolveSpec(spec, plat, env)
        made == Constructed(resolved, SelectParams(params, resolved, env))
    IN IF resolved \in Flavors
       THEN [err |-> IF ctorOK THEN "none" ELSE "LoaderError",
             rt |-> IF ctorOK THEN made ELSE None,
             resolved |-> resolved,
             named |-> <<>>,
             ctorCalled |-> TRUE,
             ctor |-> made]
       ELSE [err |-> "InvalidRuntimeSpec",
             rt |-> None,
             resolved |-> resolved,
             named |-> resolved,
             ctorCalled |-> FALSE,
             ctor |-> None]

-----------------------------------------------------------------------------
\* set_runtime (lines 14-28)

\* a handle argument not stored
SetRuntimeResultDropsHandle(loaded, cur, arg, params, ctorOK, plat, env) ==
    IF loaded
    THEN [err |-> "AlreadyLoaded", rt |-> cur, resolved |-> <<>>,
          named |-> <<>>, ctorCalled |-> FALSE, ctor |-> None]
    ELSE IF arg.isStr
    THEN LET c == CreateRuntimeFromSpec(arg.token, params, ctorOK, plat, env)
         IN [err |-> c.err,
             rt |-> IF c.err = "none" THEN c.rt ELSE cur,
             resolved |-> c.resolved,
             named |-> c.named,
             ctorCalled |-> c.ctorCalled,
             ctor |-> c.ctor]
    ELSE [err |-> "none", rt |-> cur, resolved |-> <<>>,
          named |-> <<>>, ctorCalled |-> FALSE, ctor |-> None]

SetRuntimeResult(loaded, cur, arg, params, ctorOK, plat, env) ==
    IF loaded
    THEN [err |-> "AlreadyLoaded", rt |-> cur, resolved |-> <<>>,
          named |-> <<>>, ctorCalled |-> FALSE, ctor |-> None]
    ELSE IF arg.isStr
    THEN LET c == CreateRuntimeFromSpec(arg.token, params, ctorOK, plat, env)
         IN [err |-> c.err,
             rt |-> IF c.err = "none" THEN c.rt ELSE cur,
             resolved |-> c.resolved,
             named |-> c.named,
             ctorCalled |-> c.ctorCalled,
             ctor |-> c.ctor]
    ELSE [err |-> "none", rt |-> arg.handle, resolved |-> <<>>,
          named |-> <<>>, ctorCalled |-> FALSE, ctor |-> None]

-----------------------------------------------------------------------------
\* set_default_runtime (lines 66-87)

\* line 83 raises before lines 85-87 are reached
SetDefaultRuntimeResult(cur) ==
    [err |-> "ShouldNotBeCalled", rt |-> cur, resolved |-> <<>>,
     named |-> <<>>, ctorCalled |-> FALSE, ctor |-> None]

-----------------------------------------------------------------------------
\* load (lines 90-119)

\* set_runtime called by every load, a runtime stored or not
LoadSelectAlways(loaded, cur, arg, params, ctorOK, plat, env) ==
    SetRuntimeResult(loaded, cur, arg, params, ctorOK, plat, env)

\* set_default_runtime called when nothing is selected and nothing is passed,
\* as the docstring of load (lines 95-97) describes
LoadSelectDefault(loaded, cur, arg, params, ctorOK, plat, env) ==
    IF cur = None
    THEN IF arg = StrArg(S_default) /\ params = {}
         THEN SetDefaultRuntimeResult(cur)
         ELSE SetRuntimeResult(loaded, cur, arg, params, ctorOK, plat, env)
    ELSE [err |-> "none", rt |-> cur, resolved |-> <<>>,
          named |-> <<>>, ctorCalled |-> FALSE, ctor |-> None]

\* lines 103-104: set_runtime is called only when no runtime is stored
LoadSelect(loaded, cur, arg, params, ctorOK, plat, env) ==
    IF cur = None
    THEN SetRuntimeResult(loaded, cur, arg, params, ctorOK, plat, env)
    ELSE [err |-> "none", rt |-> cur, resolved |-> <<>>,
          named |-> <<>>, ctorCalled |-> FALSE, ctor |-> None]

\* the exit hook registered before the status of Initialize is looked at
LoadInitializeHookFirst(hooks, initRc) ==
    IF initRc # 0
    THEN [err |-> "InitializationFailed", hooks |-> hooks + 1, hooked |-> TRUE]
    ELSE [err |-> "none", hooks |-> hooks + 1, hooked |-> TRUE]

\* lines 113-119: the Initialize call and the registration of the exit hook
LoadInitialize(hooks, initRc) ==
    IF initRc # 0
    THEN [err |-> "InitializationFailed", hooks |-> hooks, hooked |-> FALSE]
    ELSE [err |-> "none", hooks |-> hooks + 1, hooked |-> TRUE]

\* line 111: the assembly is fetched from the stored runtime
LoadFetch(rt) == Assembly(rt)

\* the flag after a load that initialized (no line of load assigns _LOADED)
LoadedAfterLoad(loaded) == loaded

\* the assembly fetched without the test of lines 106-107
LoadResultNoCheck(loaded, cur, asm, hooks, arg, params, ctorOK, initRc, plat, env) ==
    LET untouched == [err |-> "none", rt |-> cur, asm |-> asm, loaded |-> loaded,
                      hooks |-> hooks, resolved |-> <<>>, named |-> <<>>,
                      ctorCalled |-> FALSE, ctor |-> None, fetched |-> FALSE, initCalled |-> FALSE,
                      hooked |-> FALSE]
    IN IF loaded
       THEN untouched
       ELSE LET s == LoadSelect(loaded, cur, arg, params, ctorOK, plat, env)
                sel == [untouched EXCEPT !.err = s.err, !.rt = s.rt,
                                         !.resolved = s.resolved,
                                         !.named = s.named,
                                         !.ctorCalled = s.ctorCalled,
                                         !.ctor = s.ctor]
            IN IF s.err # "none"
               THEN sel
               ELSE LET i == LoadInitialize(hooks, initRc)
                    IN [sel EXCEPT !.asm = LoadFetch(s.rt),
                                   !.fetched = TRUE,
                                   !.initCalled = TRUE,
                                   !.err = i.err,
                                   !.hooks = i.hooks,
                                   !.hooked = i.hooked,
                                   !.loaded = IF i.err = "none"
                                              THEN LoadedAfterLoad(loaded)
                                              ELSE loaded]

LoadResult(loaded, cur, asm, hooks, arg, params, ctorOK, initRc, plat, env) ==
    LET untouched == [err |-> "none", rt |-> cur, asm |-> asm, loaded |-> loaded,
                      hooks |-> hooks, resolved |-> <<>>, named |-> <<>>,
                      ctorCalled |-> FALSE, ctor |-> None, fetched |-> FALSE, initCalled |-> FALSE,
                      hooked |-> FALSE]
    IN IF loaded
       THEN untouched
       ELSE LET s == LoadSelect(loaded, cur, arg, params, ctorOK, plat, env)
                sel == [untouched EXCEPT !.err = s.err, !.rt = s.rt,
                                         !.resolved = s.resolved,
                                         !.named = s.named,
                                         !.ctorCalled = s.ctorCalled,
                                         !.ctor = s.ctor]
            IN IF s.err # "none"
               THEN sel
               ELSE IF s.rt = None
               THEN [sel EXCEPT !.err = "NoRuntimeSelected"]
               ELSE LET i == LoadInitialize(hooks, initRc)
                    IN [sel EXCEPT !.asm = LoadFetch(s.rt),
                                   !.fetched = TRUE,
                                   !.initCalled = TRUE,
                                   !.err = i.err,
                                   !.hooks = i.hooks,
                                   !.hooked = i.hooked,
                                   !.loaded = IF i.err = "none"
                                              THEN LoadedAfterLoad(loaded)
                                              ELSE loaded]

-----------------------------------------------------------------------------
\* unload (lines 122-135)

\* the runtime handle kept across unload
UnloadReleaseKeeps(cur) == cur

\* lines 133-135: the runtime handle is released
UnloadRelease(cur) == None

\* the module reference cleared before the status of Shutdown is looked at
UnloadResultClearsFirst(cur, asm, shutRc) ==
    IF asm # NoAssembly /\ shutRc # 0
    THEN [err |-> "ShutdownFailed", rt |-> cur, asm |-> NoAssembly, shutCalled |-> TRUE]
    ELSE [err |-> "none",
          rt |-> UnloadRelease(cur),
          asm |-> NoAssembly,
          shutCalled |-> asm # NoAssembly]

\* the module reference kept after a Shutdown that returned 0
UnloadResultKeepsModule(cur, asm, shutRc) ==
    IF asm # NoAssembly /\ shutRc # 0
    THEN [err |-> "ShutdownFailed", rt |-> cur, asm |-> asm, shutCalled |-> TRUE]
    ELSE [err |-> "none",
          rt |-> UnloadRelease(cur),
          asm |-> asm,
          shutCalled |-> asm # NoAssembly]

\* Shutdown looked up and called without the test of line 126
UnloadResultAlwaysShutdown(cur, asm, shutRc) ==
    IF shutRc # 0
    THEN [err |-> "ShutdownFailed", rt |-> cur, asm |-> asm, shutCalled |-> TRUE]
    ELSE [err |-> "none",
          rt |-> UnloadRelease(cur),
          asm |-> NoAssembly,
          shutCalled |-> TRUE]

UnloadResult(cur, asm, shutRc) ==
    IF asm # NoAssembly /\ shutRc # 0
    THEN [err |-> "ShutdownFailed", rt |-> cur, asm |-> asm, shutCalled |-> TRUE]
    ELSE [err |-> "none",
          rt |-> UnloadRelease(cur),
          asm |-> NoAssembly,
          shutCalled |-> asm # NoAssembly]

\* line 119: the function registered with atexit is unload itself, so what
\* unload raises is raised by the hook
AtexitHook(cur, asm, shutRc) == UnloadResult(cur, asm, shutRc)

-----------------------------------------------------------------------------
\* Inputs

Explicit == {[k |-> P_domain, v |-> V_b]}

\* The (runtime, params) arguments of set_runtime and load
Arguments ==
    { <<StrArg(S_default), {}>>, <<StrArg(S_default), Explicit>>,
      <<StrArg(S_netfx), {}>>,
      <<StrArg(S_mono), {}>>, <<StrArg(S_mono), Explicit>>,
      <<StrArg(S_coreclr), {}>>,
      <<StrArg(S_bogus), {}>>, <<StrArg(S_bogus), Explicit>>,
      <<HandleArg(Prebuilt), {}>>,
      <<HandleArg(None), {}>> }

NoArg == HandleArg(None)

-----------------------------------------------------------------------------
\* The state machine

\* The record of a call: its arguments, whether a runtime handle was stored
\* when it began, and what it did
NoCall ==
    [op |-> "none", arg |-> NoArg, params |-> {}, hadRuntime |-> FALSE,
     err |-> "none", resolved |-> <<>>, named |-> <<>>,
     ctorCalled |-> FALSE, ctor |-> None,
     fetched |-> FALSE, initCalled |-> FALSE, initRc |-> 0,
     shutCalled |-> FALSE, shutRc |-> 0, hooked |-> FALSE]

Init ==
    /\ platform \in Platforms
    /\ environ \in Environments
    /\ RUNTIME = None
    /\ LOADER_ASSEMBLY = NoAssembly
    /\ LOADED = FALSE
    /\ atexit_hooks = 0
    /\ last = NoCall
    /\ exiting = FALSE
    /\ pending = 0
    /\ module_initialized = FALSE
    /\ phase = "fresh"

SetRuntime ==
    \E a \in Arguments, ctorOK \in BOOLEAN :
        \E arg \in {a[1]}, params \in {a[2]} :
        \E r \in {SetRuntimeResult(LOADED, RUNTIME, arg, params, ctorOK, platform, environ)} :
           /\ ~exiting
           /\ r.ctorCalled \/ ctorOK
           /\ RUNTIME' = r.rt
           /\ last' = [NoCall EXCEPT !.op = "set_runtime", !.arg = arg,
                                     !.params = params,
                                     !.hadRuntime = (RUNTIME # None),
                                     !.err = r.err, !.resolved = r.resolved,
                                     !.named = r.named,
                                     !.ctorCalled = r.ctorCalled, !.ctor = r.ctor]
           /\ phase' = IF phase = "unloaded" THEN "fresh" ELSE phase
           /\ UNCHANGED <<platform, environ, LOADER_ASSEMBLY, LOADED, atexit_hooks,
                          exiting, pending, module_initialized>>

SetDefaultRuntime ==
    \E r \in {SetDefaultRuntimeResult(RUNTIME)} :
       /\ ~exiting
       /\ RUNTIME' = r.rt
       /\ last' = [NoCall EXCEPT !.op = "set_default_runtime",
                                 !.hadRuntime = (RUNTIME # None),
                                 !.err = r.err, !.resolved = r.resolved,
                                 !.ctorCalled = r.ctorCalled, !.ctor = r.ctor]
       /\ phase' = IF phase = "unloaded" THEN "fresh" ELSE phase
       /\ UNCHANGED <<platform, environ, LOADER_ASSEMBLY, LOADED, atexit_hooks,
                      exiting, pending, module_initialized>>

Load ==
    \E a \in Arguments, ctorOK \in BOOLEAN, initRc \in {0, 1} :
        \E arg \in {a[1]}, params \in {a[2]} :
        \E r \in {LoadResult(LOADED, RUNTIME, LOADER_ASSEMBLY, atexit_hooks,
                            arg, params, ctorOK, initRc, platform, environ)} :
        LET ok == r.initCalled /\ r.err = "none"
        IN /\ ~exiting
           /\ r.ctorCalled \/ ctorOK
           /\ r.initCalled \/ initRc = 0
           /\ r.hooks <= MaxHooks
           /\ RUNTIME' = r.rt
           /\ LOADER_ASSEMBLY' = r.asm
           /\ LOADED' = r.loaded
           /\ atexit_hooks' = r.hooks
           /\ last' = [NoCall EXCEPT !.op = "load", !.arg = arg,
                                     !.params = params,
                                     !.hadRuntime = (RUNTIME # None),
                                     !.err = r.err, !.resolved = r.resolved,
                                     !.named = r.named,
                                     !.ctorCalled = r.ctorCalled, !.ctor = r.ctor,
                                     !.fetched = r.fetched,
                                     !.initCalled = r.initCalled,
                                     !.initRc = initRc,
                                     !.hooked = r.hooked]
           /\ phase' = IF ~ok THEN (IF phase = "unloaded" THEN "fresh" ELSE phase)
                       ELSE IF phase = "fresh" THEN "initialized"
                       ELSE IF phase = "unloaded" THEN "reloaded"
                       ELSE phase
           /\ module_initialized' = IF r.fetched THEN ok ELSE module_initialized
           /\ UNCHANGED <<platform, environ, exiting, pending>>

Unload ==
    \E shutRc \in {0, 1} :
        \E r \in {UnloadResult(RUNTIME, LOADER_ASSEMBLY, shutRc)} :
           /\ ~exiting
           /\ r.shutCalled \/ shutRc = 0
           /\ RUNTIME' = r.rt
           /\ LOADER_ASSEMBLY' = r.asm
           /\ last' = [NoCall EXCEPT !.op = "unload",
                                     !.hadRuntime = (RUNTIME # None),
                                     !.err = r.err,
                                     !.shutCalled = r.shutCalled,
                                     !.shutRc = shutRc]
           /\ phase' = IF phase \in {"initialized", "reloaded", "unloaded"}
                       THEN IF r.err = "none" THEN "unloaded" ELSE "fresh"
                       ELSE phase
           /\ module_initialized' = (module_initialized /\ r.asm # NoAssembly)
           /\ UNCHANGED <<platform, environ, LOADED, atexit_hooks, exiting, pending>>

\* The interpreter begins to exit: no further call is made by the application,
\* and atexit has every registered hook to run.
Exit ==
    /\ ~exiting
    /\ exiting' = TRUE
    /\ pending' = atexit_hooks
    /\ last' = [NoCall EXCEPT !.op = "exit"]
    /\ UNCHANGED <<platform, environ, RUNTIME, LOADER_ASSEMBLY, LOADED, atexit_hooks,
                   module_initialized, phase>>

\* atexit runs one registered hook; err is what the hook raises to atexit.
ExitHook ==
    \E shutRc \in {0, 1} :
        \E r \in {AtexitHook(RUNTIME, LOADER_ASSEMBLY, shutRc)} :
           /\ exiting
           /\ pending > 0
           /\ r.shutCalled \/ shutRc = 0
           /\ pending' = pending - 1
           /\ RUNTIME' = r.rt
           /\ LOADER_ASSEMBLY' = r.asm
           /\ last' = [NoCall EXCEPT !.op = "atexit",
                                     !.hadRuntime = (RUNTIME # None),
                                     !.err = r.err,
                                     !.shutCalled = r.shutCalled,
                                     !.shutRc = shutRc]
           /\ phase' = IF phase \in {"initialized", "reloaded", "unloaded"}
                       THEN IF r.err = "none" THEN "unloaded" ELSE "fresh"
                       ELSE phase
           /\ module_initialized' = (module_initialized /\ r.asm # NoAssembly)
           /\ UNCHANGED <<platform, environ, LOADED, atexit_hooks, exiting>>

Next == SetRuntime \/ SetDefaultRuntime \/ Load \/ Unload \/ Exit \/ ExitHook

Spec == Init /\ [][Next]_vars


-----------------------------------------------------------------------------
\* Properties

\* An Initialize call returned 0 and unload was not called since
initialized == phase \in {"initialized", "reloaded"}

\* The errors with which the selection of a runtime inside load can end
C3_SelectErrors == {"AlreadyLoaded", "InvalidRuntimeSpec", "LoaderError", "NoRuntimeSelected"}

\* C1: once an Initialize call has returned 0 and unload has not been called,
\* every further load is a no-op: it does not raise, fetches no assembly,
\* invokes no Initialize, registers no hook and changes nothing.
C1_LoadIdempotentOnceLoaded ==
    [][ (initialized /\ last'.op = "load")
          => /\ last'.err = "none"
             /\ ~last'.fetched
             /\ ~last'.initCalled
             /\ ~last'.hooked
             /\ UNCHANGED <<RUNTIME, LOADER_ASSEMBLY, LOADED, atexit_hooks>> ]_vars

\* C2: once an Initialize call has returned 0 and unload has not been called,
\* set_runtime fails with AlreadyLoaded and leaves the stored runtime handle
\* as it was.
C2_SetRuntimeAfterLoadFails ==
    [][ (initialized /\ last'.op = "set_runtime")
          => /\ last'.err = "AlreadyLoaded"
             /\ RUNTIME' = RUNTIME ]_vars

\* C3: an unload that succeeds after a successful load leaves the loader
\* Unselected (no runtime handle, no module handle, not loaded); the load
\* that follows selects a runtime again (constructs one for a flavor token),
\* fetches the assembly and invokes Initialize again unless the selection
\* failed, and succeeds when Initialize returns 0.
C3_RoundTrip ==
    [][ /\ (initialized /\ last'.op = "unload" /\ last'.err = "none")
              => /\ last'.shutCalled /\ last'.shutRc = 0
                 /\ RUNTIME' = None
                 /\ LOADER_ASSEMBLY' = NoAssembly
                 /\ ~LOADED'
                 /\ phase' = "unloaded"
        /\ (phase = "unloaded" /\ last'.op = "load")
              => /\ RUNTIME = None /\ LOADER_ASSEMBLY = NoAssembly /\ ~LOADED
                 /\ (last'.arg.isStr /\ last'.resolved \in Flavors) => last'.ctorCalled
                 /\ (last'.err \notin C3_SelectErrors)
                       => /\ RUNTIME' # None
                          /\ last'.fetched /\ LOADER_ASSEMBLY' = Assembly(RUNTIME')
                          /\ last'.initCalled
                 /\ (last'.initCalled /\ last'.initRc = 0)
                       => last'.err = "none" /\ phase' = "reloaded" ]_vars

\* C3 witness: a load that constructed a runtime and initialized it after a
\* successful load and a successful unload.
C3_Witness ==
    /\ phase = "reloaded"
    /\ last.op = "load" /\ last.err = "none"
    /\ ~last.hadRuntime /\ last.ctorCalled /\ last.initCalled
    /\ RUNTIME # None /\ LOADER_ASSEMBLY # NoAssembly

\* C4 as stated: unload with no module handle stored does not raise, does not
\* invoke Shutdown, and leaves runtime handle, module handle and loaded flag
\* unchanged.
C4_UnloadNothingLoadedIsNoOp ==
    [][ (LOADER_ASSEMBLY = NoAssembly /\ last'.op = "unload")
          => /\ last'.err = "none"
             /\ ~last'.shutCalled
             /\ UNCHANGED <<RUNTIME, LOADER_ASSEMBLY, LOADED>> ]_vars

\* C4 amended: unload with no module handle stored does not raise, does not
\* invoke Shutdown, registers nothing, and leaves the module handle and the
\* loaded flag unchanged; a stored runtime handle is released, so no runtime
\* handle is stored afterwards.
C4_UnloadNothingLoadedReleasesRuntime ==
    [][ (LOADER_ASSEMBLY = NoAssembly /\ last'.op = "unload")
          => /\ last'.err = "none"
             /\ ~last'.shutCalled
             /\ RUNTIME' = None
             /\ UNCHANGED <<LOADER_ASSEMBLY, LOADED, atexit_hooks>> ]_vars

\* C4 witness: unload was called in state Selected (a runtime handle stored,
\* no module handle) and returned without calling Shutdown.
C4_Witness ==
    /\ last.op = "unload" /\ last.err = "none"
    /\ last.hadRuntime /\ ~last.shutCalled
    /\ LOADER_ASSEMBLY = NoAssembly

\* C5: a load whose Initialize call returns a non-zero status fails with
\* InitializationFailed; the runtime handle the assembly was fetched from is
\* still stored, the loaded flag is not set, and the call registered no exit
\* hook.
C5_InitializeFailure ==
    [][ (last'.op = "load" /\ last'.initCalled /\ last'.initRc # 0)
          => /\ last'.err = "InitializationFailed"
             /\ RUNTIME' # None
             /\ LOADER_ASSEMBLY'.rt = RUNTIME'
             /\ ~LOADED'
             /\ ~last'.hooked
             /\ atexit_hooks' = atexit_hooks ]_vars

\* C5 witness: a load that failed in Initialize, with its runtime still stored.
C5_Witness ==
    /\ last.op = "load" /\ last.err = "InitializationFailed"
    /\ last.initCalled /\ last.initRc # 0
    /\ RUNTIME # None

\* C6: at most one exit hook is ever registered, and a call registers one
\* only when its Initialize call returned 0.
C6_AtMostOneExitHook ==
    /\ atexit_hooks <= 1
    /\ last.hooked => (last.op = "load" /\ last.initCalled /\ last.initRc = 0)

\* C7: set_runtime, and load when no runtime handle is stored, given a token
\* that after "default" resolution is not netfx, mono or coreclr, fail with
\* InvalidRuntimeSpec naming that token: no constructor is called, the stored
\* runtime handle and module handle stay as they were, no assembly is fetched
\* and Initialize is not invoked.
C7_InvalidRuntimeSpec ==
    [][ ( /\ last'.op \in {"set_runtime", "load"}
          /\ ~LOADED
          /\ last'.op = "load" => RUNTIME = None
          /\ last'.arg.isStr
          /\ ResolveSpec(last'.arg.token, platform, environ) \notin Flavors )
          => /\ last'.err = "InvalidRuntimeSpec"
             /\ last'.named = ResolveSpec(last'.arg.token, platform, environ)
             /\ ~last'.ctorCalled
             /\ ~last'.fetched
             /\ ~last'.initCalled
             /\ ~last'.hooked
             /\ UNCHANGED <<RUNTIME, LOADER_ASSEMBLY, LOADED, atexit_hooks>> ]_vars

\* C7 witness: load("default") with PYTHONNET_RUNTIME=bogus on a non-Windows
\* host failed with InvalidRuntimeSpec naming "bogus".
C7_Witness ==
    /\ last.op = "load" /\ last.arg = StrArg(S_default)
    /\ last.err = "InvalidRuntimeSpec" /\ last.named = S_bogus
    /\ RUNTIME = None

\* C8: unload with a module handle stored invokes Shutdown; on a non-zero
\* status it fails with ShutdownFailed and the module handle and the runtime
\* handle stay as they were; on status 0 it returns and both are cleared.
\* A stored module handle is cleared by nothing else.
C8_ShutdownFailure ==
    [][ /\ (last'.op = "unload" /\ LOADER_ASSEMBLY # NoAssembly)
              => /\ last'.shutCalled
                 /\ IF last'.shutRc # 0
                    THEN /\ last'.err = "ShutdownFailed"
                         /\ UNCHANGED <<RUNTIME, LOADER_ASSEMBLY, LOADED, atexit_hooks>>
                    ELSE /\ last'.err = "none"
                         /\ RUNTIME' = None
                         /\ LOADER_ASSEMBLY' = NoAssembly
        /\ (LOADER_ASSEMBLY # NoAssembly /\ LOADER_ASSEMBLY' = NoAssembly)
              => /\ last'.op \in {"unload", "atexit"}
                 /\ last'.shutCalled /\ last'.shutRc = 0 ]_vars

\* C8 witness: unload failed with ShutdownFailed and both handles are stored.
C8_Witness ==
    /\ last.op = "unload" /\ last.err = "ShutdownFailed"
    /\ last.hadRuntime /\ RUNTIME # None
    /\ LOADER_ASSEMBLY # NoAssembly

\* The value of an environment variable the process has, or dflt
C9_EnvOr(name, dflt) ==
    IF \E i \in 1..Len(environ) : environ[i].k = name
    THEN (CHOOSE e \in {environ[i] : i \in 1..Len(environ)} : e.k = name).v
    ELSE dflt

C10_Matches(k, flavor) ==
    LET want == PYTHONNET_ \o flavor \o <<"_">>
    IN /\ Len(k) >= Len(want)
       /\ \A i \in 1..Len(want) : UpperChar(k[i]) = UpperChar(want[i])

\* The lower-cased remainder of the name k after the prefix for flavor
C10_Key(k, flavor) ==
    LET n == Len(PYTHONNET_) + Len(flavor) + 1
    IN [i \in 1..(Len(k) - n) |-> LowerChar(k[n + i])]

\* m is a mapping built from the environment variables matching flavor
C10_FromEnvironment(m, flavor) ==
    LET matching == {i \in 1..Len(environ) : C10_Matches(environ[i].k, flavor)}
    IN /\ Keys(m) = {C10_Key(environ[i].k, flavor) : i \in matching}
       /\ \A e \in m : \E i \in matching :
              e.k = C10_Key(environ[i].k, flavor) /\ e.v = environ[i].v
       /\ Cardinality(m) = Cardinality(Keys(m))

\* C10: the flavor constructor receives, when the caller gave no explicit
\* parameters, the mapping built from the environment variables that match
\* PYTHONNET_<RESOLVED FLAVOR>_ case-insensitively, keyed by the lower-cased
\* remainder; and when the caller gave explicit parameters, exactly those.
C10_ConstructorParameters ==
    last.ctorCalled
        => IF last.params = {}
           THEN C10_FromEnvironment(last.ctor.params, last.ctor.flavor)
           ELSE last.ctor.params = last.params

\* C10 witness: set_runtime("coreclr") without parameters, with
\* PYTHONNET_CORECLR_RUNTIME_CONFIG=/tmp/x.json, passed runtime_config.
C10_Witness ==
    /\ last.op = "set_runtime" /\ last.arg = StrArg(S_coreclr) /\ last.params = {}
    /\ last.ctorCalled
    /\ last.ctor.params = {[k |-> C10_runtime_config, v |-> V_json]}

\* C11: a registered exit hook that atexit runs never raises: when Shutdown
\* returns a non-zero status the hook still returns to atexit without error.
C11_ExitHookDoesNotRaise ==
    last.op = "atexit" => last.err = "none"

\* C12: the module handle is stored exactly when the Initialize call on that
\* module returned 0 and no unload has cleared it since.
C12_ModuleHandleIffInitialized ==
    (LOADER_ASSEMBLY # NoAssembly) <=> module_initialized

\* C13: set_runtime called while a runtime handle is stored calls no
\* constructor and leaves the stored handle as it was.
C13_SelectedAtMostOnce ==
    [][ (RUNTIME # None /\ last'.op = "set_runtime")
          => /\ ~last'.ctorCalled
             /\ RUNTIME' = RUNTIME ]_vars

\* C14: whenever a module handle is stored, a runtime handle is stored.
C14_ModuleImpliesRuntime ==
    LOADER_ASSEMBLY # NoAssembly => RUNTIME # None

\* The calls that run unload: the explicit call and the exit hook
C15_UnloadOps == {"unload", "atexit"}

\* C15: an unload that succeeds leaves no module handle and no runtime
\* handle; an unload (explicit or from the exit hook) in that state does not
\* raise, does not invoke Shutdown and changes nothing; and a Shutdown that
\* returns 0 clears the module handle it was invoked on, so it returns 0 at
\* most once per fetched module.
C15_UnloadIdempotent ==
    [][ /\ (last'.op \in C15_UnloadOps /\ last'.err = "none")
              => (LOADER_ASSEMBLY' = NoAssembly /\ RUNTIME' = None)
        /\ ( /\ LOADER_ASSEMBLY = NoAssembly /\ RUNTIME = None
             /\ last'.op \in C15_UnloadOps )
              => /\ last'.err = "none"
                 /\ ~last'.shutCalled
                 /\ UNCHANGED <<RUNTIME, LOADER_ASSEMBLY, LOADED, atexit_hooks>>
        /\ (last'.shutCalled /\ last'.shutRc = 0)
              => /\ last'.op \in C15_UnloadOps
                 /\ LOADER_ASSEMBLY # NoAssembly
                 /\ LOADER_ASSEMBLY' = NoAssembly ]_vars

\* C15 witness: the exit hook ran after unload had already succeeded, and
\* returned without invoking Shutdown.
C15_Witness ==
    /\ phase = "unloaded"
    /\ last.op = "atexit" /\ last.err = "none"
    /\ ~last.hadRuntime /\ ~last.shutCalled
    /\ LOADER_ASSEMBLY = NoAssembly /\ RUNTIME = None

\* C16: load with no runtime handle stored, given an absent handle (None) as
\* its runtime argument, fails with NoRuntimeSelected: no assembly is fetched,
\* Initialize is not invoked, and runtime handle, module handle and loaded
\* flag stay as they were.
C16_NoRuntimeSelected ==
    [][ ( /\ last'.op = "load"
          /\ ~LOADED
          /\ RUNTIME = None
          /\ last'.arg = HandleArg(None) )
          => /\ last'.err = "NoRuntimeSelected"
             /\ ~last'.ctorCalled
             /\ ~last'.fetched
             /\ ~last'.initCalled
             /\ ~last'.hooked
             /\ UNCHANGED <<RUNTIME, LOADER_ASSEMBLY, LOADED, atexit_hooks>> ]_vars

\* C16 witness: load(None) with nothing selected failed with
\* NoRuntimeSelected.
C16_Witness ==
    /\ last.op = "load" /\ last.arg = HandleArg(None) /\ ~last.hadRuntime
    /\ last.err = "NoRuntimeSelected"
    /\ RUNTIME = None

\* C17: set_runtime given a handle rather than a token stores that handle,
\* resolves nothing, calls no constructor, invokes neither Initialize nor
\* Shutdown, and leaves module handle, loaded flag and exit hooks as they
\* were.
C17_HandlePassedThrough ==
    [][ (last'.op = "set_runtime" /\ ~LOADED /\ ~last'.arg.isStr)
          => /\ last'.err = "none"
             /\ RUNTIME' = last'.arg.handle
             /\ last'.resolved = <<>>
             /\ ~last'.ctorCalled
             /\ ~last'.fetched
             /\ ~last'.initCalled
             /\ ~last'.shutCalled
             /\ UNCHANGED <<LOADER_ASSEMBLY, LOADED, atexit_hooks>> ]_vars

\* C17 witness: set_runtime stored the caller's handle while a module handle
\* fetched from another runtime was stored.
C17_Witness ==
    /\ last.op = "set_runtime" /\ last.arg = HandleArg(Prebuilt)
    /\ last.err = "none"
    /\ RUNTIME = Prebuilt
    /\ LOADER_ASSEMBLY # NoAssembly /\ LOADER_ASSEMBLY.rt # Prebuilt

C19_LoadUsesStoredRuntime ==
    [][ (last'.op = "load" /\ ~LOADED /\ RUNTIME # None)
          => /\ last'.resolved = <<>>
             /\ ~last'.ctorCalled
             /\ last'.err \in {"none", "InitializationFailed"}
             /\ RUNTIME' = RUNTIME
             /\ last'.fetched
             /\ LOADER_ASSEMBLY' = Assembly(RUNTIME) ]_vars

\* C19 witness: load("bogus", domain=...) with a prebuilt handle stored
\* succeeded on that handle.
C19_Witness ==
    /\ last.op = "load" /\ last.arg = StrArg(S_bogus) /\ last.params = Explicit
    /\ last.hadRuntime /\ last.err = "none"
    /\ RUNTIME = Prebuilt /\ LOADER_ASSEMBLY = Assembly(Prebuilt)

\* C20: Shutdown is invoked only on a module whose Initialize call returned 0.
C20_ShutdownOnlyAfterInitialize ==
    [][ last'.shutCalled => module_initialized ]_vars

====
